---------------------------- MODULE Spec2Model ----------------------------
(***************************************************************************)
(* A model of src/orion_dtc/conscious_twin.py: the ConsciousDigitalTwin    *)
(* engine, its four histories and the sync pipeline.                       *)
(*                                                                         *)
(* Numbers.  Python floats are modelled as decimal fixed-point numbers     *)
(* with eight decimals: the integer n stands for n / Unit.  Sums,          *)
(* differences, comparisons, the products by 0.5 and 10 and the quotients  *)
(* len/10 and len/20 are exact in this representation; the other           *)
(* quotients, the squares and the square root are rounded to the eighth    *)
(* decimal, where IEEE-754 doubles round to the 53rd bit.  round(x, 4) and *)
(* round(x, 6) keep their meaning (round half to even).                    *)
(*                                                                         *)
(* The model's floats are also narrower than doubles: FloatMax stands for  *)
(* sys.float_info.max (about 1.8e308), and as in Python a power x ** 2     *)
(* whose result is beyond it raises OverflowError.  The snapshots keep     *)
(* every other result within the range.                                    *)
(*                                                                         *)
(* Exceptions.  A helper returns a result [exc, val]: exc is "" when the   *)
(* helper returns val, and the name of the Python exception when a         *)
(* division by zero, an out-of-range index or a float overflow is reached. *)
(***************************************************************************)
EXTENDS Integers, Sequences, FiniteSets, TLC

VARIABLES
    twins,    \* engine -> the ConsciousDigitalTwin object (its six fields)
    calls,    \* engine -> sequence of the sync calls made so far: the
              \*           argument, the locals and the outcome of each call
    feed,     \* the snapshots a shared source has emitted so far
    probe     \* a score and the label the classification of sync gives it

vars == <<twins, calls, feed, probe>>

---------------------------------------------------------------------------
(* Fixed-point arithmetic *)

Unit == 10^8
Root == 10^4                      \* Root * Root = Unit

\* n ten-thousandths, e.g. Dec(7999) is 0.7999
Dec(n) == n * (Unit \div 10000)
\* n hundred-thousandths
Dec5(n) == n * (Unit \div 100000)

Abs(x) == IF x < 0 THEN -x ELSE x
Min(a, b) == IF a <= b THEN a ELSE b
Max(a, b) == IF a >= b THEN a ELSE b

Ok(v) == [exc |-> "", val |-> v]
Raise(e) == [exc |-> e, val |-> 0]

\* x / n for a float x and an int n, rounded to the nearest unit
TrueDivInt(x, n) ==
    IF n = 0 THEN Raise("ZeroDivisionError")
    ELSE Ok((2 * x + n) \div (2 * n))

\* n / d for two ints (len(...) / 10)
IntRatio(n, d) ==
    IF d = 0 THEN Raise("ZeroDivisionError")
    ELSE Ok((2 * n * Unit + d) \div (2 * d))

\* a * b for 0 <= a, b, without leaving 32 bits: a = ah*Root + al
MulNonNeg(a, b) ==
    LET ah == a \div Root
        al == a % Root
        bh == b \div Root
        bl == b % Root
    IN  ah * bh + ((ah * bl + al * bh + ((al * bl) \div Root)) \div Root)

\* the part of a * a below one unit is zero
SquareExact(a) ==
    LET ah == a \div Root
        al == a % Root
    IN  /\ (2 * ah * al + ((al * al) \div Root)) % Root = 0
        /\ (al * al) % Root = 0

\* the largest finite float of the model, and its square root
FloatMax == 16 * Unit
SqrtFloatMax == 4 * Unit

\* x * x for a float x whose square is in range
Sq(x) == MulNonNeg(Abs(x), Abs(x))

\* x ** 2: float.__pow__ raises OverflowError when the result is out of range
Square(x) ==
    IF Abs(x) > SqrtFloatMax THEN Raise("OverflowError") ELSE Ok(Sq(x))

\* x * k for an int k
Scale(x, k) == x * k

\* x * 0.5
Halve(x) == (2 * x + 2) \div 4

\* does r * r <= v hold (as reals)?
SqLeq(r, v) == Sq(r) < v \/ (Sq(r) = v /\ SquareExact(r))

RECURSIVE SqrtBetween(_, _, _)
\* the largest r in lo..hi with r*r <= v, given lo*lo <= v
SqrtBetween(v, lo, hi) ==
    IF lo >= hi THEN lo
    ELSE LET mid == (lo + hi + 1) \div 2
         IN  IF SqLeq(mid, v) THEN SqrtBetween(v, mid, hi)
             ELSE SqrtBetween(v, lo, mid - 1)

\* x ** 0.5 for 0 <= x <= FloatMax
Sqrt(x) == SqrtBetween(x, 0, SqrtFloatMax)

RECURSIVE FracDigits(_, _, _)
\* k more decimal digits of r / b, for 0 <= r < b
FracDigits(r, b, k) ==
    IF k = 0 THEN 0
    ELSE ((10 * r) \div b) * 10^(k - 1) + FracDigits((10 * r) % b, b, k - 1)

\* a / b for two floats, 0 <= a, rounded down
TrueDiv(a, b) ==
    IF b = 0 THEN Raise("ZeroDivisionError")
    ELSE LET d == Abs(b)
             q == (a \div d) * Unit + FracDigits(a % d, d, 8)
         IN  Ok(IF b < 0 THEN -q ELSE q)

\* round(x, 4) and round(x, 6): to a multiple of step, ties to even
RoundTo(x, step) ==
    LET q == x \div step
        r == x % step
    IN  IF 2 * r > step \/ (2 * r = step /\ q % 2 = 1)
        THEN (q + 1) * step
        ELSE q * step

Round4(x) == RoundTo(x, Unit \div 10^4)
Round6(x) == RoundTo(x, Unit \div 10^6)

RECURSIVE SumOver(_)
\* sum(f.values()) of a mapping f
SumOver(f) ==
    IF DOMAIN f = {} THEN 0
    ELSE LET k == CHOOSE k \in DOMAIN f : TRUE
         IN  f[k] + SumOver([j \in DOMAIN f \ {k} |-> f[j]])

RECURSIVE SumSeq(_)
\* sum(s) of a list s
SumSeq(s) == IF s = <<>> THEN 0 ELSE Head(s) + SumSeq(Tail(s))

\* the values of a mapping (or list) of results, and the exception that
\* evaluating them raises ("" when none does)
Vals(rs) == [k \in DOMAIN rs |-> rs[k].val]
AnyExc(rs) ==
    IF \A k \in DOMAIN rs : rs[k].exc = "" THEN ""
    ELSE rs[CHOOSE k \in DOMAIN rs : rs[k].exc # ""].exc

---------------------------------------------------------------------------
(* Data *)

Engines == {"a", "b"}

\* PhysicalState(device_id, sensors, actuators, health, timestamp)
PhysicalState(device, sensors, health, timestamp) ==
    [device_id |-> device, sensors |-> sensors, actuators |-> <<>>,
     health |-> health, timestamp |-> timestamp]

NoSensors == [k \in {} |-> 0]

\* The snapshots the model feeds to sync.  Between them they hold an empty
\* sensors mapping, a health below 0 and one above 1, sensor keys that the
\* previous snapshot does not have, a sensor mean of 0, changes of 0.5 and
\* of 0.6 in a sensor, two timestamps, and a sensor value whose squared
\* deviation is beyond the largest float (SnapBig stands for
\* sensors={"x": 1e200, "y": 0.0}).
SnapEmpty == PhysicalState("D1", NoSensors, -Dec(20000), "t0")
SnapX10 == PhysicalState("D1", "x" :> Dec(10000), Dec(8000), "t0")
SnapX10Low == PhysicalState("D1", "x" :> Dec(10000), Dec5(79995), "t1")
SnapX15 == PhysicalState("D1", "x" :> Dec(15000), Dec(7000), "t0")
SnapXY == PhysicalState("D1", ("x" :> Dec(16000)) @@ ("y" :> Dec(15000)),
                        Dec(10000), "t1")
SnapYZ == PhysicalState("D1", ("y" :> Dec(10000)) @@ ("z" :> -Dec(10000)),
                        Dec(20000), "t0")

SnapBig == PhysicalState("D1", ("x" :> Dec(100000)) @@ ("y" :> 0),
                         Dec(10000), "t1")

Snapshots ==
    {SnapEmpty, SnapX10, SnapX10Low, SnapX15, SnapXY, SnapYZ, SnapBig}
PairSnapshots == {SnapX10, SnapXY, SnapBig}

MaxSyncs == 5
MaxFeed == 3
MaxOffset == 10

\* The scores the classification is tried on: 0, 1 and the four thresholds,
\* and the scores up to MaxOffset steps of 1e-8, 1e-4 and 1e-2 around each.
ScoreSamples ==
    {t + d * g : t \in {0, Dec(2000), Dec(5000), Dec(7000), Dec(8500), Unit},
                 d \in -MaxOffset..MaxOffset,
                 g \in {1, Dec(1), Dec(100)}}

\* ConsciousDigitalTwin(twin_id, device_id)
ConsciousDigitalTwin(twin_id, device_id) ==
    [twin_id |-> twin_id, device_id |-> device_id,
     physical_history |-> <<>>, twin_history |-> <<>>,
     proof_chain |-> <<>>, predictions |-> <<>>]

TwinState(twin_id, sync_acc, pred_acc, anomalies, level, score, proof_hash) ==
    [twin_id |-> twin_id, sync_accuracy |-> sync_acc,
     prediction_accuracy |-> pred_acc,
     anomalies_detected |-> anomalies, consciousness_level |-> level,
     consciousness_score |-> score, proof_hash |-> proof_hash]

\* s[-k] of a list s
Item(s, k) ==
    IF k > Len(s) THEN Raise("IndexError") ELSE Ok(s[Len(s) - k + 1])

\* s[-k:] of a list s
LastItems(s, k) ==
    IF Len(s) <= k THEN s ELSE SubSeq(s, Len(s) - k + 1, Len(s))

---------------------------------------------------------------------------
(* The indicator helpers *)

_compute_sync_accuracy(self, physical) ==
    IF self.predictions = <<>> THEN Ok(Dec(5000))
    ELSE LET last_pred == Item(self.predictions, 1)
         IN  IF last_pred.exc # "" THEN last_pred
             ELSE LET pred == last_pred.val.sensors
                      errors == [key \in {k \in DOMAIN pred :
                                             k \in DOMAIN physical.sensors} |->
                                    Unit - Min(Unit,
                                        Abs(pred[key] - physical.sensors[key]))]
                  IN  TrueDivInt(SumOver(errors),
                                 Max(Cardinality(DOMAIN errors), 1))

_evaluate_predictions(self, physical) ==
    IF Len(self.physical_history) < 3 THEN Ok(Dec(3000))
    ELSE LET ratio == IntRatio(Len(self.physical_history), 20)
         IN  IF ratio.exc # "" THEN ratio ELSE Ok(Min(Unit, ratio.val))

\* _detect_anomalies with the threshold test written >= 0.5
_detect_anomalies_geq(self, physical) ==
    IF Len(self.physical_history) < 2 THEN Ok(0)
    ELSE LET prev == Item(self.physical_history, 2)
         IN  Ok(Cardinality({key \in DOMAIN physical.sensors :
                    /\ key \in DOMAIN prev.val.sensors
                    /\ Abs(physical.sensors[key] - prev.val.sensors[key])
                           >= Dec(5000)}))

_detect_anomalies(self, physical) ==
    IF Len(self.physical_history) < 2 THEN Ok(0)
    ELSE LET prev == Item(self.physical_history, 2)
         IN  IF prev.exc # "" THEN prev
             ELSE Ok(Cardinality({key \in DOMAIN physical.sensors :
                        /\ key \in DOMAIN prev.val.sensors
                        /\ Abs(physical.sensors[key] - prev.val.sensors[key])
                               > Dec(5000)}))

_sensor_integration(self, physical) ==
    LET values == physical.sensors
        n == Cardinality(DOMAIN values)
    IN  IF n = 0 THEN Ok(0)
        ELSE IF n < 2 THEN Ok(Dec(3000))
        ELSE LET mean == TrueDivInt(SumOver(values), n)
             IN  IF mean.exc # "" THEN mean
                 ELSE IF mean.val = 0 THEN Ok(0)
                 ELSE LET squares == [k \in DOMAIN values |->
                                         Square(values[k] - mean.val)]
                          variance == TrueDivInt(SumOver(Vals(squares)), n)
                          cv == TrueDiv(Sqrt(variance.val), Abs(mean.val))
                      IN  IF AnyExc(squares) # "" THEN Raise(AnyExc(squares))
                          ELSE IF variance.exc # "" THEN variance
                          ELSE IF cv.exc # "" THEN cv
                          ELSE Ok(Max(0, Min(Unit, Unit - cv.val)))

_attention_focus(self, physical) == Ok(Min(Unit, physical.health))

_behavioral_consistency(self) ==
    IF Len(self.twin_history) < 3 THEN Ok(Dec(5000))
    ELSE LET last == LastItems(self.twin_history, 5)
             recent == [i \in 1..Len(last) |-> last[i].consciousness_score]
             mean == TrueDivInt(SumSeq(recent), Len(recent))
             squares == [i \in 1..Len(recent) |->
                            Square(recent[i] - mean.val)]
             variance == TrueDivInt(SumSeq(Vals(squares)), Len(recent))
         IN  IF mean.exc # "" THEN mean
             ELSE IF AnyExc(squares) # "" THEN Raise(AnyExc(squares))
             ELSE IF variance.exc # "" THEN variance
             ELSE Ok(Max(0, Unit - Scale(variance.val, 10)))

\* the predictions list after the call
_make_prediction(self, physical) ==
    LET later == Len(self.physical_history) >= 2
        prev == Item(self.physical_history, 2)
        sensors == physical.sensors
    IN  IF DOMAIN sensors # {} /\ later /\ prev.exc # "" THEN prev
        ELSE Ok(Append(self.predictions,
                [sensors |-> [key \in DOMAIN sensors |->
                    IF later
                    THEN LET val == sensors[key]
                             before == IF key \in DOMAIN prev.val.sensors
                                       THEN prev.val.sensors[key] ELSE val
                             trend == val - before
                         IN  val + Halve(trend)
                    ELSE sensors[key]]]))

---------------------------------------------------------------------------
(* Classification and proof *)

Levels ==
    <<"C-0 Reactive", "C-1 Functional", "C-2 Emerging", "C-3 Autonomous",
      "C-4 Transcendent">>

\* classify with the thresholds exclusive
classify_strict(score) ==
    IF score > Dec(8500) THEN "C-4 Transcendent"
    ELSE IF score > Dec(7000) THEN "C-3 Autonomous"
    ELSE IF score > Dec(5000) THEN "C-2 Emerging"
    ELSE IF score > Dec(2000) THEN "C-1 Functional"
    ELSE "C-0 Reactive"

\* classify applied to the score as the record reports it
classify_rounded(score) ==
    IF Round4(score) >= Dec(8500) THEN "C-4 Transcendent"
    ELSE IF Round4(score) >= Dec(7000) THEN "C-3 Autonomous"
    ELSE IF Round4(score) >= Dec(5000) THEN "C-2 Emerging"
    ELSE IF Round4(score) >= Dec(2000) THEN "C-1 Functional"
    ELSE "C-0 Reactive"

classify(score) ==
    IF score >= Dec(8500) THEN "C-4 Transcendent"
    ELSE IF score >= Dec(7000) THEN "C-3 Autonomous"
    ELSE IF score >= Dec(5000) THEN "C-2 Emerging"
    ELSE IF score >= Dec(2000) THEN "C-1 Functional"
    ELSE "C-0 Reactive"

\* the keys of the proof record in the order sort_keys=True writes them
SortedKeys == <<"anomalies", "level", "score", "timestamp", "twin_id">>

\* json.dumps(obj, sort_keys=True): the key/value pairs in key order
json_dumps(obj) == [i \in 1..Len(SortedKeys) |-> <<SortedKeys[i], obj[SortedKeys[i]]>>]

\* hashlib.sha256(data.encode()).hexdigest(): the digest is modelled as a
\* collision-free function of the text it is taken of
sha256_hexdigest(data) == <<"sha256", data>>

\* proof_data with the engine's device_id added to the record
proof_data_device(self, physical, score, level, anomalies) ==
    <<<<"anomalies", anomalies>>, <<"device_id", self.device_id>>,
      <<"level", level>>, <<"score", Round6(score)>>,
      <<"timestamp", physical.timestamp>>, <<"twin_id", self.twin_id>>>>

proof_data(self, physical, score, level, anomalies) ==
    json_dumps([twin_id |-> self.twin_id,
                timestamp |-> physical.timestamp,
                score |-> Round6(score),
                level |-> level,
                anomalies |-> anomalies])

\* proof_hash chained to the previous entry of proof_chain
proof_hash_chained(self, data) ==
    sha256_hexdigest(<<IF self.proof_chain = <<>> THEN <<>>
                       ELSE self.proof_chain[Len(self.proof_chain)], data>>)

proof_hash(self, data) == sha256_hexdigest(data)

---------------------------------------------------------------------------
(* sync *)

RECURSIVE FirstExc(_)
\* the exception of the first result of the list that raised one
FirstExc(results) ==
    IF results = <<>> THEN ""
    ELSE IF Head(results).exc # "" THEN Head(results).exc
    ELSE FirstExc(Tail(results))

\* what a call that raised leaves of its locals
Raised(self, physical, exc) ==
    [self |-> self,
     call |-> [physical |-> physical, exc |-> exc, sync_accuracy |-> 0,
               prediction_accuracy |-> 0, anomalies |-> 0,
               indicators |-> <<>>, score |-> 0, level |-> "",
               proof_data |-> <<>>, returned |-> <<>>]]

\* sync(physical) on the engine self: the engine after the call, and the
\* record of the call
sync(self, physical) ==
    LET s1 == [self EXCEPT !.physical_history = Append(@, physical)]
        sync_accuracy == _compute_sync_accuracy(s1, physical)
        prediction_accuracy == _evaluate_predictions(s1, physical)
        anomalies == _detect_anomalies(s1, physical)
        monitoring == IntRatio(Len(s1.twin_history), 10)
        integration == _sensor_integration(s1, physical)
        attention == _attention_focus(s1, physical)
        consistency == _behavioral_consistency(s1)
        exc1 == FirstExc(<<sync_accuracy, prediction_accuracy, anomalies,
                           monitoring, integration, attention, consistency>>)
        indicators ==
            [situation_awareness |-> sync_accuracy.val,
             self_monitoring |-> Min(Unit, monitoring.val),
             integration |-> integration.val,
             prediction |-> prediction_accuracy.val,
             attention |-> attention.val,
             consistency |-> consistency.val]
        score == TrueDivInt(SumOver(indicators), Cardinality(DOMAIN indicators))
        level == classify(score.val)
        data == proof_data(s1, physical, score.val, level, anomalies.val)
        hash == proof_hash(s1, data)
        s2 == [s1 EXCEPT !.proof_chain = Append(@, hash)]
        predictions == _make_prediction(s2, physical)
        s3 == [s2 EXCEPT !.predictions = predictions.val]
        twin_state ==
            TwinState(self.twin_id, Round4(sync_accuracy.val),
                      Round4(prediction_accuracy.val), anomalies.val, level,
                      Round4(score.val), hash)
        s4 == [s3 EXCEPT !.twin_history = Append(@, twin_state)]
    IN  IF exc1 # "" THEN Raised(s1, physical, exc1)
        ELSE IF score.exc # "" THEN Raised(s1, physical, score.exc)
        ELSE IF predictions.exc # "" THEN Raised(s2, physical, predictions.exc)
        ELSE [self |-> s4,
              call |-> [physical |-> physical, exc |-> "",
                        sync_accuracy |-> sync_accuracy.val,
                        prediction_accuracy |-> prediction_accuracy.val,
                        anomalies |-> anomalies.val,
                        indicators |-> indicators,
                        score |-> score.val, level |-> level,
                        proof_data |-> data, returned |-> twin_state]]

---------------------------------------------------------------------------
(* The state machine *)

\* two engines built with the same twin_id, for two devices
InitEngines ==
    /\ twins = [e \in Engines |->
                   ConsciousDigitalTwin("T1", IF e = "a" THEN "D1" ELSE "D2")]
    /\ calls = [e \in Engines |-> <<>>]
    /\ feed = <<>>

Init == InitEngines /\ probe = [score |-> 0, level |-> ""]

\* one call twins[e].sync(physical)
Sync(e, physical) ==
    LET r == sync(twins[e], physical)
    IN  /\ twins' = [twins EXCEPT ![e] = r.self]
        /\ calls' = [calls EXCEPT ![e] = Append(@, r.call)]
        /\ UNCHANGED <<feed, probe>>

\* a caller syncs engine "a" with any snapshot
SyncAny ==
    \E physical \in Snapshots :
        /\ Len(calls["a"]) < MaxSyncs
        /\ Sync("a", physical)

Next == SyncAny

Spec == Init /\ [][Next]_vars

\* a source emits a snapshot
Emit ==
    \E physical \in PairSnapshots :
        /\ Len(feed) < MaxFeed
        /\ feed' = Append(feed, physical)
        /\ UNCHANGED <<twins, calls, probe>>

\* an engine syncs with the next snapshot of the source it has not seen
Replay ==
    \E e \in Engines :
        /\ Len(calls[e]) < Len(feed)
        /\ Sync(e, feed[Len(calls[e]) + 1])

NextPair == Emit \/ Replay

SpecPair == Init /\ [][NextPair]_vars

\* the classification step of sync (lines 77-81) on a score of its own
InitClassify ==
    /\ InitEngines
    /\ probe \in [score : ScoreSamples, level : {""}]

Classify ==
    /\ probe.level = ""
    /\ probe' = [probe EXCEPT !.level = classify(probe.score)]
    /\ UNCHANGED <<twins, calls, feed>>

NextClassify == Classify

SpecClassify == InitClassify /\ [][NextClassify]_vars

---------------------------------------------------------------------------
(* Reading the state *)

\* the calls of engine e that returned, and the place of call i's results
\* in twin_history, proof_chain and predictions
Returned(e) == {i \in 1..Len(calls[e]) : calls[e][i].exc = ""}
Rank(e, i) == Cardinality({j \in Returned(e) : j <= i})
CallOf(e, k) == CHOOSE i \in Returned(e) : Rank(e, i) = k

\* the label the five thresholds give a score
LabelOf(score) ==
    CASE score >= Dec(8500) -> "C-4 Transcendent"
      [] score >= Dec(7000) /\ score < Dec(8500) -> "C-3 Autonomous"
      [] score >= Dec(5000) /\ score < Dec(7000) -> "C-2 Emerging"
      [] score >= Dec(2000) /\ score < Dec(5000) -> "C-1 Functional"
      [] score < Dec(2000) -> "C-0 Reactive"

Thresholds == {Dec(2000), Dec(5000), Dec(7000), Dec(8500)}

\* the tier below a label
Below(level) ==
    CASE level = "C-4 Transcendent" -> "C-3 Autonomous"
      [] level = "C-3 Autonomous" -> "C-2 Emerging"
      [] level = "C-2 Emerging" -> "C-1 Functional"
      [] OTHER -> "C-0 Reactive"

InUnit(x) == 0 <= x /\ x <= Unit

\* the keys two sensor mappings share
Shared(a, b) == DOMAIN a \cap DOMAIN b

\* the mean over the shared keys of 1 - min(1, |predicted - actual|)
MeanAccuracy(predicted, actual) ==
    LET K == Shared(predicted, actual)
        acc == [k \in K |-> IF Abs(predicted[k] - actual[k]) >= Unit THEN 0
                            ELSE Unit - Abs(predicted[k] - actual[k])]
    IN  IF K = {} THEN 0
        ELSE (2 * SumOver(acc) + Cardinality(K)) \div (2 * Cardinality(K))

\* the shared keys whose values differ by more than 0.5
LargeChanges(prev, cur) ==
    {k \in Shared(prev, cur) : cur[k] - prev[k] > Dec(5000)
                               \/ prev[k] - cur[k] > Dec(5000)}

---------------------------------------------------------------------------
(* The claims *)

\* C1: every TwinState that sync returns has consciousness_score,
\* sync_accuracy and prediction_accuracy in [0, 1], whatever the snapshots.
C1_ScoresInUnitInterval ==
    \A e \in Engines : \A k \in 1..Len(twins[e].twin_history) :
        LET t == twins[e].twin_history[k]
        IN  /\ InUnit(t.consciousness_score)
            /\ InUnit(t.sync_accuracy)
            /\ InUnit(t.prediction_accuracy)

\* C2: after n completed calls to sync on a fresh engine, physical_history,
\* twin_history, predictions and proof_chain all have length exactly n.
C2_HistoriesHaveLengthN ==
    \A e \in Engines :
        LET n == Cardinality(Returned(e))
        IN  /\ Len(twins[e].physical_history) = n
            /\ Len(twins[e].twin_history) = n
            /\ Len(twins[e].predictions) = n
            /\ Len(twins[e].proof_chain) = n

\* C3: two engines with the same twin_id fed the same sequence of snapshots
\* have equal proof chains, entry by entry, after every call.
C3_SameFeedSameProofs ==
    \A i \in 1..Min(Len(twins["a"].proof_chain), Len(twins["b"].proof_chain)) :
        twins["a"].proof_chain[i] = twins["b"].proof_chain[i]

\* both engines have made three calls on a feed of different snapshots and
\* hold at least two proofs
C3_Witness ==
    /\ Len(calls["a"]) = 3 /\ Len(calls["b"]) = 3
    /\ Len(twins["a"].proof_chain) >= 2
    /\ Len(twins["b"].proof_chain) >= 2
    /\ twins["a"].twin_id = twins["b"].twin_id
    /\ twins["a"].device_id # twins["b"].device_id
    /\ feed[1] # feed[2]

\* C4: sync is total: every call returns a TwinState without raising, and
\* with an empty sensors mapping the integration indicator is 0.0.
C4_SyncNeverRaises ==
    \A e \in Engines : \A i \in 1..Len(calls[e]) :
        /\ calls[e][i].exc = ""
        /\ DOMAIN calls[e][i].physical.sensors = {}
               => calls[e][i].indicators.integration = 0

\* C5: the prediction_accuracy computed by a sync call is never lower than
\* the one computed by the call before it.
C5_PredictionAccuracyMonotone ==
    \A e \in Engines : \A i \in Returned(e) : \A j \in Returned(e) :
        i < j => calls[e][i].prediction_accuracy
                     <= calls[e][j].prediction_accuracy

\* C6: the first sync has sync_accuracy 0.5; every later sync computes it
\* against the prediction stored by the immediately preceding sync call, as
\* the mean over the shared keys of 1 - min(1, |predicted - actual|), and 0
\* when no key is shared.
C6_SyncAccuracyAgainstPrecedingCall ==
    \A e \in Engines : \A i \in Returned(e) :
        IF i = 1 THEN calls[e][i].sync_accuracy = Dec(5000)
        ELSE /\ i - 1 \in Returned(e)
             /\ calls[e][i].sync_accuracy =
                    MeanAccuracy(
                        twins[e].predictions[Rank(e, i - 1)].sensors,
                        calls[e][i].physical.sensors)

\* C7: anomalies_detected is 0 on the first sync; on a later sync it is the
\* number of sensor keys shared with the snapshot recorded by the preceding
\* sync whose values differ by strictly more than 0.5.
C7_AnomaliesCountLargeChanges ==
    \A e \in Engines : \A i \in Returned(e) :
        calls[e][i].returned.anomalies_detected =
            IF i = 1 THEN 0
            ELSE Cardinality(LargeChanges(calls[e][i - 1].physical.sensors,
                                          calls[e][i].physical.sensors))

\* an engine has seen a shared key change by exactly 0.5 and counted no
\* anomaly, and a shared key change by 0.6 and counted exactly one
C7_Witness ==
    \E i \in Returned("a") : \E j \in Returned("a") :
        /\ i > 1 /\ j > 1
        /\ \E k \in Shared(calls["a"][i - 1].physical.sensors,
                           calls["a"][i].physical.sensors) :
               Abs(calls["a"][i].physical.sensors[k]
                   - calls["a"][i - 1].physical.sensors[k]) = Dec(5000)
        /\ calls["a"][i].returned.anomalies_detected = 0
        /\ \E k \in Shared(calls["a"][j - 1].physical.sensors,
                           calls["a"][j].physical.sensors) :
               Abs(calls["a"][j].physical.sensors[k]
                   - calls["a"][j - 1].physical.sensors[k]) = Dec(6000)
        /\ calls["a"][j].returned.anomalies_detected = 1

\* C8: the label is a total function of the composite score with
\* lower-inclusive thresholds 0.85, 0.70, 0.50 and 0.20: every score gets
\* exactly one of the five labels, and a score at a threshold the higher one.
C8_LevelIsThresholdLabel ==
    probe.level # "" =>
        /\ \E n \in 1..Len(Levels) :
               /\ probe.level = Levels[n]
               /\ \A m \in 1..Len(Levels) : probe.level = Levels[m] => m = n
        /\ probe.level = LabelOf(probe.score)
        /\ probe.score \in Thresholds =>
               /\ probe.level # "C-0 Reactive"
               /\ LabelOf(probe.score - 1) = Below(probe.level)

\* the score 0.85 exactly has been given the label of the highest tier
C8_Witness ==
    /\ probe.score = Dec(8500)
    /\ probe.level = "C-4 Transcendent"

\* C9 (as stated): in every TwinState of twin_history, consciousness_level is
\* the label the thresholds give to that record's consciousness_score, the
\* score rounded to 4 decimals.
C9_LevelMatchesReportedScore ==
    \A e \in Engines : \A k \in 1..Len(twins[e].twin_history) :
        twins[e].twin_history[k].consciousness_level =
            LabelOf(twins[e].twin_history[k].consciousness_score)

\* C9 (amended): in every TwinState of twin_history, consciousness_level is
\* the label the thresholds give to the unrounded composite score, of which
\* consciousness_score is the rounding to 4 decimals; so it is the label of
\* the reported score unless that score is exactly a threshold, where it is
\* that label or the tier below.
C9_LevelIsLabelOfUnroundedScore ==
    \A e \in Engines : \A k \in 1..Len(twins[e].twin_history) :
        LET t == twins[e].twin_history[k]
            score == calls[e][CallOf(e, k)].score
        IN  /\ t.consciousness_level = LabelOf(score)
            /\ 2 * Abs(t.consciousness_score - score) <= Dec(1)
            /\ t.consciousness_score % Dec(1) = 0
            /\ \/ t.consciousness_level = LabelOf(t.consciousness_score)
               \/ /\ t.consciousness_score \in Thresholds
                  /\ t.consciousness_level
                         = Below(LabelOf(t.consciousness_score))

\* a record reports the score 0.5 with the label of the tier below 0.5
C9_Witness ==
    \E k \in 1..Len(twins["a"].twin_history) :
        /\ twins["a"].twin_history[k].consciousness_score = Dec(5000)
        /\ twins["a"].twin_history[k].consciousness_level = "C-1 Functional"
        /\ calls["a"][CallOf("a", k)].score < Dec(5000)

\* the record of the k-th assessment of engine e
ProofRecord(e, k) ==
    LET c == calls[e][CallOf(e, k)]
    IN  <<twins[e].twin_id, c.physical.timestamp, Round6(c.score),
          c.returned.consciousness_level, c.returned.anomalies_detected>>

\* C10: the proof hash a sync call appends is a function only of that
\* assessment's record (twin_id, timestamp, score rounded to 6 decimals,
\* label, anomaly count), not of earlier entries or of the position: two
\* assessments with an equal record have the same proof hash.
C10_ProofIsFunctionOfRecord ==
    \A e \in Engines :
        \A k \in 1..Len(twins[e].proof_chain) :
            /\ twins[e].twin_history[k].proof_hash = twins[e].proof_chain[k]
            /\ \A m \in 1..Len(twins[e].proof_chain) :
                   ProofRecord(e, k) = ProofRecord(e, m)
                       => twins[e].proof_chain[k] = twins[e].proof_chain[m]

\* two assessments at different positions, after different snapshots, have
\* an equal record and the same proof hash
C10_Witness ==
    \E k \in 1..Len(twins["a"].proof_chain) :
        \E m \in 1..Len(twins["a"].proof_chain) :
            /\ k < m
            /\ ProofRecord("a", k) = ProofRecord("a", m)
            /\ calls["a"][CallOf("a", k)].physical
                   # calls["a"][CallOf("a", m)].physical
            /\ twins["a"].proof_chain[k] = twins["a"].proof_chain[m]

===========================================================================
